---- MODULE Spec2Model ----
(***************************************************************************)
(* MASS batch search (src/src/lib.rs): the chunk partitioner task_index,   *)
(* the parallel per-chunk search and top-k selection of mass_batch, and    *)
(* the one-time initialisation of the process-wide worker pool             *)
(* (JOBS_SET / init_pool / start_pool, built without the "auto" feature).  *)
(*                                                                         *)
(* The numeric kernels (math::dist, math::fft_mult, math::argmin, stats)   *)
(* are not part of the sources at hand.  A series and a query are          *)
(* represented by the distance profile they determine: profile[i+1] is the *)
(* distance between the query and the window of the series that starts at  *)
(* offset i.  A window's distance depends on the window and the query      *)
(* only, so the profile of a slice ts[l..=h] is the part of the profile    *)
(* for the offsets l .. h-m+1.  Distances are naturals (always comparable).*)
(***************************************************************************)
EXTENDS Integers, Sequences, FiniteSets, TLC

\* ---------------------------------------------------------------- bounds
\* Spec: series length, requested batch size, top_matches, distance values,
\* requested threads, logical processors of the machine.
MaxTs == 5
MaxBatch == 4
MaxTop == 2
MaxDist == 1
MaxThreads == 2
NumCpus == 1
\* SpecIndex (task_index alone): series length and requested batch size.
MaxIdxTs == 10
MaxIdxBatch == 8

VARIABLES
    debug_assertions, \* build profile: TRUE when debug_assert! is compiled in
    JOBS_SET,         \* the std::sync::Once: "new" | "done" | "poisoned"
    registry,         \* rayon's global pool: 0 = not built yet, else its thread count
    pc,               \* "idle" | "par" (chunks being searched) | "done" (call ended)
    op,               \* the call in progress or just ended
    entry,            \* <<JOBS_SET, registry>> as they were when the call was made
    threads,          \* init_pool's argument
    ts_len,           \* ts.len()
    query_len,        \* query.len()
    profile,          \* the distance profile of (ts, query), offsets 0..ts_len-query_len
    batch_size,       \* mass_batch's / task_index's batch_size argument
    top_matches,      \* mass_batch's top_matches argument
    chunks,           \* the (low, high) pairs task_index yields
    pending,          \* chunks handed to the pool and not yet searched
    dists,            \* the collected per-chunk (index, distance) pairs, as collected
    outcome,          \* "ok" or the panic the call ended with
    result            \* the Vec the call returned (<<>> when it panicked)

vars == <<debug_assertions, JOBS_SET, registry, pc, op, entry, threads,
          ts_len, query_len, profile, batch_size, top_matches, chunks, pending,
          dists, outcome, result>>

Min(a, b) == IF a <= b THEN a ELSE b

\* ------------------------------------------------------------ task_index

RECURSIVE Pow2AtLeast(_, _)
Pow2AtLeast(p, x) == IF p >= x THEN p ELSE Pow2AtLeast(2 * p, x)

\* usize::next_power_of_two: the smallest power of two >= x (1 for x = 0).
next_power_of_two(x) == Pow2AtLeast(1, x)

\* usize::is_power_of_two
is_power_of_two(x) == x > 0 /\ next_power_of_two(x) = x

\* batch_size after lines 222-224.
rounded_batch_size(b) == IF ~is_power_of_two(b) THEN next_power_of_two(b) ELSE b

\* The panic task_index raises before it builds the iterator, "ok" if none.
\* The two debug_assert! are compiled in only with debug assertions.
task_index_check(ts, query, b, dbg) ==
    IF ~(b > query) THEN "InvalidLength"
    ELSE IF dbg /\ ~(rounded_batch_size(b) <= ts) THEN "InvalidLength"
    ELSE IF dbg /\ ~(rounded_batch_size(b) >= query) THEN "InvalidLength"
    ELSE "ok"

step_size_extra_overlap(b, query) == b - query

\* let step_size = batch_size - (query - 1);
step_size(b, query) == b - (query - 1)

\* (start..end).step_by(step): start, start+step, ... while < end.
RECURSIVE step_by(_, _, _)
step_by(start, end, step) ==
    IF start >= end THEN <<>> ELSE <<start>> \o step_by(start + step, end, step)

chunk_high_unclamped(ts, i, b) == i + b - 1

\* (ts - 1).min(i + batch_size - 1)
chunk_high(ts, i, b) == Min(ts - 1, i + b - 1)

\* The items of the iterator task_index returns, in order.
task_index(ts, query, b) ==
    LET bs == rounded_batch_size(b)
        lows == step_by(0, ts - query, step_size(bs, query))
    IN  [k \in 1..Len(lows) |-> <<lows[k], chunk_high(ts, lows[k], bs)>>]

\* ------------------------------------------------------------------ mass

\* mass(&ts[l..=h], query): one distance per offset of the slice,
\* (h-l+1) - query_len + 1 entries.
mass(prof, m, l, h) == [j \in 1..((h - l + 1) - m + 1) |-> prof[l + j]]

\* math::argmin: the 0-based position of the minimum, the first one on ties.
argmin(d) ==
    CHOOSE i \in 0..(Len(d) - 1) :
        /\ \A j \in 1..Len(d) : d[i + 1] <= d[j]
        /\ \A j \in 1..i : d[j] > d[i + 1]

\* min_subsequence_distance(l, &ts[l..=h], query)
min_subsequence_distance(start_idx, prof, m, l, h) ==
    LET distances == mass(prof, m, l, h)
        min_idx == argmin(distances)
        dist == distances[min_idx + 1]
        index == min_idx + start_idx
    IN  <<index, dist>>

\* ------------------------------------------------------------ mass_batch

\* The debug_assert! at the head of mass_batch.
mass_batch_check(b, top, dbg) ==
    IF dbg /\ ~(b > 0) THEN "BatchSizeZero"
    ELSE IF dbg /\ ~(top > 0) THEN "TopMatchesZero"
    ELSE "ok"

enough_chunks_unchecked(len, top) == TRUE

\* assert!(dists.len() >= top_matches, ...)
enough_chunks(len, top) == len >= top

\* Every arrangement slice::select_nth_unstable_by(nth, by distance) may leave:
\* a permutation with no larger distance before position nth (0-based) and no
\* smaller one after it.
select_nth_unstable_by(d, nth) ==
    { p \in { [i \in 1..Len(d) |-> d[f[i]]] : f \in Permutations(1..Len(d)) } :
        /\ \A i \in 1..nth : p[i][2] <= p[nth + 1][2]
        /\ \A i \in (nth + 2)..Len(d) : p[i][2] >= p[nth + 1][2] }

select_in_arrival_order(d, nth) == {d}

\* The arrangements the selection step of mass_batch may leave in dists.
selection(d, nth) == select_nth_unstable_by(d, nth)

take_one_less(d, top) == SubSeq(d, 1, top - 1)

\* dists.iter().take(top_matches).copied().collect()
take(d, top) == SubSeq(d, 1, Min(top, Len(d)))

\* ------------------------------------------------------------------ pool

\* fn cpus() -> usize { num_cpus::get() }
cpus == NumCpus

uncapped_jobs(jobs) == jobs

\* let jobs = jobs.min(cpus());
capped_jobs(jobs) == Min(jobs, cpus)

Cleared ==
    /\ op = "none" /\ entry = <<"none", 0>> /\ threads = 0
    /\ ts_len = 0 /\ query_len = 0 /\ profile = <<>>
    /\ batch_size = 0 /\ top_matches = 0
    /\ chunks = <<>> /\ pending = {} /\ dists = <<>>
    /\ outcome = "none" /\ result = <<>>

Init ==
    /\ debug_assertions \in BOOLEAN
    /\ JOBS_SET = "new"
    /\ registry = 0
    /\ pc = "idle"
    /\ Cleared

\* init_pool(t): JOBS_SET.call_once(|| start_pool(t)).  A completed Once skips
\* the closure; a poisoned Once panics; otherwise start_pool runs, and a panic
\* in it (jobs = 0, or build_global() refusing because the global pool is
\* already built) poisons the Once.
init_pool(t) ==
    /\ pc = "idle"
    /\ pc' = "done"
    /\ op' = "init_pool"
    /\ threads' = t
    /\ entry' = <<JOBS_SET, registry>>
    /\ IF JOBS_SET = "done"
         THEN /\ outcome' = "ok"
              /\ UNCHANGED <<JOBS_SET, registry>>
         ELSE IF JOBS_SET = "poisoned"
         THEN /\ outcome' = "OncePoisoned"
              /\ UNCHANGED <<JOBS_SET, registry>>
         ELSE IF ~(t > 0)
         THEN /\ outcome' = "InvalidConfiguration"
              /\ JOBS_SET' = "poisoned"
              /\ UNCHANGED registry
         ELSE IF registry # 0
         THEN /\ outcome' = "GlobalPoolAlreadyInitialized"
              /\ JOBS_SET' = "poisoned"
              /\ UNCHANGED registry
         ELSE /\ outcome' = "ok"
              /\ JOBS_SET' = "done"
              /\ registry' = capped_jobs(t)
    /\ UNCHANGED <<debug_assertions, ts_len, query_len, profile, batch_size,
                   top_matches, chunks, pending, dists, result>>

\* mass_batch with arguments that pass the head's debug_assert! and task_index's
\* checks, up to the point where the chunks are handed to the pool: par_bridge's
\* first use builds rayon's global pool with the default size if nobody built it.
mass_batch_call(n, m, prof, b, top) ==
    /\ pc = "idle"
    /\ mass_batch_check(b, top, debug_assertions) = "ok"
    /\ task_index_check(n, m, b, debug_assertions) = "ok"
    /\ pc' = "par"
    /\ op' = "mass_batch"
    /\ ts_len' = n /\ query_len' = m /\ profile' = prof
    /\ batch_size' = b /\ top_matches' = top
    /\ outcome' = "none"
    /\ chunks' = task_index(n, m, b)
    /\ pending' = {chunks'[i] : i \in 1..Len(chunks')}
    /\ registry' = IF registry = 0 THEN cpus ELSE registry
    /\ UNCHANGED <<debug_assertions, JOBS_SET, entry, threads, dists, result>>

\* mass_batch panicking on its arguments, before it reads the series or touches
\* the pool: the head's debug_assert!, then task_index's checks.
mass_batch_rejected(n, m, b, top) ==
    /\ pc = "idle"
    /\ LET head == mass_batch_check(b, top, debug_assertions)
           idx == task_index_check(n, m, b, debug_assertions)
       IN  /\ ~(head = "ok" /\ idx = "ok")
           /\ outcome' = IF head # "ok" THEN head ELSE idx
    /\ pc' = "done"
    /\ op' = "mass_batch"
    /\ ts_len' = n /\ query_len' = m
    /\ batch_size' = b /\ top_matches' = top
    /\ UNCHANGED <<debug_assertions, JOBS_SET, registry, entry, threads, profile,
                   chunks, pending, dists, result>>

\* One pool worker finishes one chunk: .map(|(l, h)| min_subsequence_distance(l, &ts[l..=h], query)).
\* Chunks finish in any order; the collected Vec holds them in that order.
chunk_done(c) ==
    /\ pc = "par"
    /\ c \in pending
    /\ pending' = pending \ {c}
    /\ dists' = Append(dists, min_subsequence_distance(c[1], profile, query_len, c[1], c[2]))
    /\ UNCHANGED <<debug_assertions, JOBS_SET, registry, pc, op, entry, threads,
                   ts_len, query_len, profile, batch_size, top_matches, chunks,
                   outcome, result>>

\* After collect(): the assert!, select_nth_unstable_by(top_matches - 1), take.
\* top_matches = 0 reaches this point only without debug assertions, where
\* top_matches - 1 wraps to usize::MAX and select_nth_unstable_by panics (as
\* for any index >= dists.len()).  The rearranged Vec is local to the call:
\* only its first top_matches entries leave it, so dists keeps the collected
\* order here and the arrangement chosen shows in result.
mass_batch_select ==
    /\ pc = "par"
    /\ pending = {}
    /\ pc' = "done"
    /\ IF ~enough_chunks(Len(dists), top_matches)
         THEN /\ outcome' = "InsufficientChunks"
              /\ UNCHANGED result
         ELSE IF top_matches = 0 \/ top_matches - 1 >= Len(dists)
         THEN /\ outcome' = "IndexOutOfBounds"
              /\ UNCHANGED result
         ELSE /\ outcome' = "ok"
              /\ result' \in {take(p, top_matches) : p \in selection(dists, top_matches - 1)}
    /\ UNCHANGED <<debug_assertions, JOBS_SET, registry, op, entry, threads,
                   ts_len, query_len, profile, batch_size, top_matches, chunks, pending,
                   dists>>

\* The caller has the call's outcome; the process is ready for the next call.
call_return ==
    /\ pc = "done"
    /\ pc' = "idle"
    /\ op' = "none" /\ entry' = <<"none", 0>> /\ threads' = 0
    /\ ts_len' = 0 /\ query_len' = 0 /\ profile' = <<>>
    /\ batch_size' = 0 /\ top_matches' = 0
    /\ chunks' = <<>> /\ pending' = {} /\ dists' = <<>>
    /\ outcome' = "none" /\ result' = <<>>
    /\ UNCHANGED <<debug_assertions, JOBS_SET, registry>>

\* task_index called on its own (as the jobs_range tests do), iterator drained.
task_index_call(n, m, b) ==
    /\ pc = "idle"
    /\ pc' = "done"
    /\ op' = "task_index"
    /\ ts_len' = n /\ query_len' = m /\ batch_size' = b
    /\ outcome' = task_index_check(n, m, b, debug_assertions)
    /\ chunks' = IF outcome' = "ok" THEN task_index(n, m, b) ELSE <<>>
    /\ UNCHANGED <<debug_assertions, JOBS_SET, registry, entry, threads, profile,
                   top_matches, pending, dists, result>>

Profiles(len) == [1..len -> 0..MaxDist]

InitPoolStep == pc = "idle" /\ \E t \in 0..MaxThreads : init_pool(t)

MassBatchStep ==
    /\ pc = "idle"
    /\ \E n \in 1..MaxTs : \E m \in 1..n : \E b \in 0..MaxBatch : \E top \in 0..MaxTop :
          \E prof \in Profiles(n - m + 1) : mass_batch_call(n, m, prof, b, top)

MassBatchRejectedStep ==
    /\ pc = "idle"
    /\ \E n \in 1..MaxTs : \E m \in 1..n : \E b \in 0..MaxBatch : \E top \in 0..MaxTop :
          mass_batch_rejected(n, m, b, top)

ChunkStep == pc = "par" /\ \E c \in pending : chunk_done(c)

TaskIndexStep ==
    pc = "idle" /\ \E n \in 1..MaxIdxTs : \E m \in 1..n : \E b \in 0..MaxIdxBatch :
        task_index_call(n, m, b)

Next ==
    \/ InitPoolStep
    \/ MassBatchStep
    \/ MassBatchRejectedStep
    \/ ChunkStep
    \/ mass_batch_select
    \/ call_return

Spec == Init /\ [][Next]_vars

NextIndex ==
    \/ TaskIndexStep
    \/ call_return

SpecIndex == Init /\ [][NextIndex]_vars

\* ---------------------------------------------------------------- claims

\* The valid (n, m, b) of the partitioner: b > m and the rounded size <= n.
ValidArgs ==
    /\ query_len >= 1
    /\ batch_size > query_len
    /\ rounded_batch_size(batch_size) <= ts_len

TaskIndexDone == pc = "done" /\ op = "task_index"
MassBatchDone == pc = "done" /\ op = "mass_batch"
InitPoolDone == pc = "done" /\ op = "init_pool"

\* The alignment offsets chunk c searches: low .. high - m + 1.
OffsetsOf(c) == c[1]..(c[2] - query_len + 1)

\* Offset i, start to end, lies inside chunk c.
Contains(c, i) == c[1] <= i /\ i + query_len - 1 <= c[2]

ChunkSet == {chunks[k] : k \in 1..Len(chunks)}

\* The MatchResult of every chunk, whatever the order they were computed in.
PerChunk == {min_subsequence_distance(c[1], profile, query_len, c[1], c[2]) : c \in ChunkSet}

\* C1: for every valid (n, m, b), every alignment offset 0..n-m lies, start to
\* end, inside at least one chunk task_index yields.
C1_EveryOffsetCovered ==
    (TaskIndexDone /\ ValidArgs) =>
        \A i \in 0..(ts_len - query_len) : \E c \in ChunkSet : Contains(c, i)

\* The offsets of the full profile where the distance is minimal.
Minimizers == {i \in 0..(Len(profile) - 1) : \A j \in 1..Len(profile) : profile[i + 1] <= profile[j]}

\* C2: for valid (n, m, b) and top_matches = 1, when the full-series profile
\* has a unique minimum, mass_batch returns exactly one result and its index
\* is the offset of that minimum.
C2_BestMatchIsGlobalBest ==
    (MassBatchDone /\ ValidArgs /\ top_matches = 1 /\ Cardinality(Minimizers) = 1) =>
        /\ outcome = "ok"
        /\ Len(result) = 1
        /\ result[1][1] \in Minimizers

ResultSet == {result[k] : k \in 1..Len(result)}

\* C3: with 1 <= top_matches <= number of chunks, mass_batch returns exactly
\* top_matches results, each a per-chunk MatchResult, no two the same, and
\* none farther than a per-chunk MatchResult it left out.
C3_TopKSmallest ==
    (MassBatchDone /\ top_matches >= 1 /\ top_matches <= Len(chunks)) =>
        /\ outcome = "ok"
        /\ Len(result) = top_matches
        /\ Cardinality(ResultSet) = top_matches
        /\ ResultSet \subseteq PerChunk
        /\ \A r \in ResultSet : \A d \in PerChunk \ ResultSet : r[2] <= d[2]

C3_Witness ==
    /\ MassBatchDone /\ outcome = "ok"
    /\ top_matches = 1 /\ Len(chunks) = 2
    /\ \E d \in PerChunk \ ResultSet : \A r \in ResultSet : r[2] < d[2]

\* C4: an init_pool call made when the global pool is already built (by an
\* earlier init_pool or by a batch search) returns normally and leaves the
\* pool as it was.
C4_LaterInitPoolIsNoOp ==
    (InitPoolDone /\ entry[2] # 0) => (outcome = "ok" /\ registry = entry[2])

\* C5: a mass_batch call whose arguments pass the checks and whose top_matches
\* exceeds the number of chunks fails with the insufficient-chunks panic and
\* returns nothing.
C5_InsufficientChunks ==
    ( /\ MassBatchDone
      /\ mass_batch_check(batch_size, top_matches, debug_assertions) = "ok"
      /\ task_index_check(ts_len, query_len, batch_size, debug_assertions) = "ok"
      /\ top_matches > Len(task_index(ts_len, query_len, batch_size)) ) =>
        (outcome = "InsufficientChunks" /\ result = <<>>)

C5_Witness ==
    /\ MassBatchDone /\ outcome = "InsufficientChunks"
    /\ ValidArgs /\ Len(dists) = 1 /\ top_matches = 2 /\ result = <<>>

\* C6: for a requested size b > m whose rounded size is not within m..n,
\* task_index fails and yields no chunk.
C6_RoundedSizeValidated ==
    ( /\ TaskIndexDone
      /\ batch_size > query_len
      /\ ~( /\ query_len <= rounded_batch_size(batch_size)
            /\ rounded_batch_size(batch_size) <= ts_len ) ) =>
        (outcome # "ok" /\ chunks = <<>>)

\* C7: the first init_pool(t), made while nothing has built the pool, fails
\* for t = 0 and leaves the pool unbuilt, and otherwise builds it with
\* min(t, logical processors) threads: exactly t when t <= processors.
C7_FirstInitPool ==
    (InitPoolDone /\ entry = <<"new", 0>>) =>
        IF threads = 0
          THEN outcome = "InvalidConfiguration" /\ registry = 0
          ELSE /\ outcome = "ok"
               /\ registry = (IF threads <= NumCpus THEN threads ELSE NumCpus)

C7_Witness ==
    /\ InitPoolDone /\ entry = <<"new", 0>>
    /\ threads > NumCpus /\ registry = NumCpus /\ outcome = "ok"

\* The power of two B with b <= B < 2b (B = 1 for b = 0).
RoundedUp(b) == CHOOSE p \in {2 ^ e : e \in 0..(b + 1)} : p >= b /\ (p = 1 \/ p < 2 * b)

\* C8: for valid (n, m, b), with B the rounded size and step = B - (m - 1),
\* task_index yields exactly (low, min(n-1, low+B-1)) for low = 0, step, ...
\* below n-m, in increasing order; and the four documented examples.
C8_ExactChunks ==
    (TaskIndexDone /\ ValidArgs) =>
        LET B == RoundedUp(batch_size)
            step == B - (query_len - 1)
            count == Cardinality({low \in 0..(ts_len - query_len - 1) : low % step = 0})
        IN  /\ outcome = "ok"
            /\ Len(chunks) = count
            /\ \A k \in 1..count :
                 LET low == (k - 1) * step
                     top == low + B - 1
                 IN  chunks[k] = <<low, IF top <= ts_len - 1 THEN top ELSE ts_len - 1>>
            /\ (ts_len = 10 /\ query_len = 4 /\ batch_size = 5) => chunks = <<<<0, 7>>, <<5, 9>>>>
            /\ (ts_len = 6 /\ query_len = 2 /\ batch_size = 4) => chunks = <<<<0, 3>>, <<3, 5>>>>
            /\ (ts_len = 8 /\ query_len = 2 /\ batch_size = 8) => chunks = <<<<0, 7>>>>
            /\ (ts_len = 6 /\ query_len = 3 /\ batch_size = 4) => chunks = <<<<0, 3>>, <<2, 5>>>>

C8_Witness ==
    /\ TaskIndexDone /\ outcome = "ok"
    /\ ts_len = 10 /\ query_len = 4 /\ batch_size = 5
    /\ chunks = <<<<0, 7>>, <<5, 9>>>>

\* The top_matches nearest per-chunk MatchResults, as a function of the
\* arguments alone.
NearestPerChunk ==
    {r \in PerChunk : Cardinality({d \in PerChunk : d[2] < r[2]}) < top_matches}

DistinctMinima == \A r, d \in PerChunk : r # d => r[2] # d[2]

\* C9: when the per-chunk minimum distances are pairwise distinct, the set of
\* results mass_batch returns is the same whatever order the chunks finished
\* in: it is the set of the top_matches nearest per-chunk MatchResults.
C9_OrderIndependent ==
    (MassBatchDone /\ outcome = "ok" /\ DistinctMinima) => ResultSet = NearestPerChunk

\* A later chunk finished before an earlier one, and one result was left out.
C9_Witness ==
    /\ MassBatchDone /\ outcome = "ok" /\ DistinctMinima
    /\ Len(dists) = 2 /\ top_matches = 1
    /\ dists[1][1] > dists[2][1]
    /\ dists[1][2] > dists[2][2]
    /\ ResultSet = {dists[2]}

====
